---------------------------- MODULE Spec2Model ----------------------------
(***************************************************************************)
(* IPv6 forwarding decision of net/devif/ipv6_forward.c.                   *)
(*                                                                         *)
(* One call of ipv6_forward() is modelled step by step: every call the     *)
(* function makes to a collaborator (netdev_findby_ipv6addr, the 6LoWPAN   *)
(* conversion hook, ipv6_hdrsize, iob_tryalloc, iob_trycopyin, the         *)
(* forwarding paths, iob_free_chain, ipv6_dropstats) is one step, and pc   *)
(* is the position inside the function.  The build configuration          *)
(* (the CONFIG_* symbols the file tests) is chosen once, in Init.          *)
(***************************************************************************)
EXTENDS Integers, Sequences, FiniteSets, TLC

(***************************************************************************)
(* Bounds of the model.                                                    *)
(***************************************************************************)
MaxIobs == 2
MaxDrops == 2

(***************************************************************************)
(* Program constants.  The errno values and header lengths are those of    *)
(* the NuttX headers the file includes.  IP_PROTO_NONE stands for any      *)
(* protocol the switch of ipv6_hdrsize sends to its default case.          *)
(* TCP_OFFSET_FIELD is the offset of tcpoffset in struct tcp_hdr_s.        *)
(* SIZEOF_UINTPTR and UINT_BITS are those of a 16-bit int, 32-bit pointer  *)
(* target; IOB_BUFSIZE is the default CONFIG_IOB_BUFSIZE.                  *)
(***************************************************************************)
OK == 0
ENOMEM == 12
ENOSYS == 38
EPROTONOSUPPORT == 93
EPFNOSUPPORT == 96
ENETUNREACH == 101

IP_PROTO_TCP == 6
IP_PROTO_UDP == 17
IP_PROTO_ICMP6 == 58
IP_PROTO_NONE == 59

IPv6_HDRLEN == 40
UDP_HDRLEN == 8
ICMPv6_HDRLEN == 4
TCP_OFFSET_FIELD == 12
SIZEOF_UINTPTR == 4
UINT_BITS == 16
IOB_BUFSIZE == 196

NULL == 0
NET_LL_ETHERNET == 1
NET_LL_IEEE802154 == 2

Devs == {1, 2}
LLTypes == {NET_LL_ETHERNET, NET_LL_IEEE802154}
Protos == {IP_PROTO_TCP, IP_PROTO_UDP, IP_PROTO_ICMP6, IP_PROTO_NONE}
Bytes == {80, 240}
DLens == {0, 40, 48, 100, 300}

VARIABLES
  cfg,         \* build configuration (CONFIG_* symbols)
  netdevs,     \* registered network devices
  d_lltype,    \* d_lltype of every registered device
  iob_free,    \* free IOBs in the pool
  iob_fwd,     \* IOBs owned by a forwarding path that accepted a chain
  g_netstats,  \* drop counters
  dev,         \* ingress device of the current call
  d_len,       \* dev->d_len
  ipv6,        \* the header the call was given (and the bytes around it)
  fwddev,      \* local: forwarding device
  ret,         \* local
  hdrsize,     \* local
  paysize,     \* local
  iob,         \* local: number of IOBs in the chain iob points to (0: NULL)
  pc,          \* position inside ipv6_forward
  result,      \* the value ipv6_forward returned (read at pc = "done")
  sendret,     \* history: what the 6LoWPAN send routine of this call returned
  calls,       \* history: collaborator calls made by the current call
  entry,       \* history: d_len, counters and pool at entry of the call
  cpc,         \* overlapping calls: each call's place in its counter updates
  reg          \* overlapping calls: the counter value each call has loaded

vars == <<cfg, netdevs, d_lltype, iob_free, iob_fwd, g_netstats, dev, d_len,
          ipv6, fwddev, ret, hdrsize, paysize, iob, pc, result, sendret, calls,
          entry, cpc, reg>>

config == <<cfg, netdevs, d_lltype>>

conc == <<cpc, reg>>

(* A call that is at none of the places that count a drop.                 *)
NotDropping == [leg |-> "none", n |-> 0, loaded |-> FALSE]

(***************************************************************************)
(* Build configurations.  CONFIG_NETDEV_MULTINIC without CONFIG_NET_6LOWPAN*)
(* does not build: line 359 passes three arguments to the two-parameter    *)
(* macro of line 147.  CONFIG_NET_MULTILINK is read only inside the        *)
(* 6LoWPAN hook, so it is varied only with CONFIG_NET_6LOWPAN.  The three  *)
(* transport protocols are enabled.                                        *)
(***************************************************************************)
Configs ==
  {c \in [MULTINIC : BOOLEAN, SIXLOWPAN : BOOLEAN, MULTILINK : BOOLEAN,
          STATISTICS : BOOLEAN, TCP : {TRUE}, UDP : {TRUE}, ICMPv6 : {TRUE}] :
     /\ c.MULTINIC => c.SIXLOWPAN
     /\ c.MULTILINK => c.SIXLOWPAN}

ZeroStats == [ipv6 |-> 0, tcp |-> 0, udp |-> 0, icmpv6 |-> 0]

TcpOffsetAt == IPv6_HDRLEN + TCP_OFFSET_FIELD
TcpOffsetRead == IPv6_HDRLEN * SIZEOF_UINTPTR + TCP_OFFSET_FIELD

(* Frames: protocol, destination (the network served by device n, or 0 for *)
(* a destination no device serves) and the two bytes of the receive buffer *)
(* at which a TCP header length can be looked for.                         *)
Headers ==
  {h \in [proto : Protos, destipaddr : {0, 1, 2},
          buf : [{TcpOffsetAt, TcpOffsetRead} -> Bytes]] :
     h.proto # IP_PROTO_TCP => (h.buf[TcpOffsetAt] = 80 /\ h.buf[TcpOffsetRead] = 80)}

NoHeader ==
  [proto |-> IP_PROTO_NONE, destipaddr |-> 0,
   buf |-> [o \in {TcpOffsetAt, TcpOffsetRead} |-> 80]]

Outstanding == MaxIobs - iob_free

Init ==
  /\ cfg \in Configs
  /\ netdevs \in {IF cfg.MULTINIC THEN Devs ELSE {1}}
  /\ d_lltype \in [netdevs -> LLTypes]
  /\ iob_free \in 0..MaxIobs
  /\ iob_fwd = 0
  /\ g_netstats = ZeroStats
  /\ dev = 1
  /\ d_len = 0
  /\ ipv6 = NoHeader
  /\ fwddev = NULL
  /\ ret = OK
  /\ hdrsize = 0
  /\ paysize = 0
  /\ iob = 0
  /\ pc = "idle"
  /\ result = OK
  /\ sendret = OK
  /\ calls = <<>>
  /\ entry = [d_len |-> 0, stats |-> ZeroStats, outstanding |-> Outstanding]
  /\ cpc = [p \in netdevs |-> NotDropping]
  /\ reg = [p \in netdevs |-> 0]

(***************************************************************************)
(* ipv6_input() calls ipv6_forward(dev, ipv6): a frame of n bytes (link    *)
(* header already subtracted) is in dev->d_buf.                            *)
(***************************************************************************)
Input(d, n, h) ==
  /\ pc = "idle"
  /\ g_netstats.ipv6 < MaxDrops
  /\ dev' = d
  /\ d_len' = n
  /\ ipv6' = h
  /\ fwddev' = NULL
  /\ ret' = OK
  /\ hdrsize' = 0
  /\ paysize' = 0
  /\ iob' = 0
  /\ pc' = "find"
  /\ result' = OK
  /\ sendret' = OK
  /\ calls' = <<>>
  /\ entry' = [d_len |-> n, stats |-> g_netstats, outstanding |-> Outstanding]
  /\ UNCHANGED <<config, conc, iob_free, iob_fwd, g_netstats>>

(* netdev_findby_ipv6addr(): the device serving the destination, or NULL.  *)
netdev_findby_ipv6addr(h) ==
  IF h.destipaddr \in netdevs THEN h.destipaddr ELSE NULL

(* Lines 339-355 and 438-476: look the device up and pick the branch.  The *)
(* else branch of line 435 is the only branch without MULTINIC.            *)
SameDevBranch(f) == ~cfg.MULTINIC \/ f = dev

(* FindDev with the no-route exit sent through the drop label.            *)
FindDev_GotoDrop ==
  /\ pc = "find"
  /\ LET f == netdev_findby_ipv6addr(ipv6) IN
       /\ fwddev' = f
       /\ calls' = Append(calls, "netdev_findby_ipv6addr")
       /\ IF f = NULL
            THEN result' = result /\ pc' = "drop"
            ELSE IF SameDevBranch(f) /\ ~cfg.SIXLOWPAN
                   THEN result' = -ENOSYS /\ pc' = "done"
                   ELSE result' = result /\ pc' = "conversion"
  /\ UNCHANGED <<config, conc, sendret, iob_free, iob_fwd, g_netstats, dev,
                 d_len, ipv6, ret, hdrsize, paysize, iob, entry>>

FindDev ==
  /\ pc = "find"
  /\ LET f == netdev_findby_ipv6addr(ipv6) IN
       /\ fwddev' = f
       /\ calls' = Append(calls, "netdev_findby_ipv6addr")
       /\ IF f = NULL
            THEN result' = -ENETUNREACH /\ pc' = "done"
            ELSE IF SameDevBranch(f) /\ ~cfg.SIXLOWPAN
                   THEN result' = -ENOSYS /\ pc' = "done"
                   ELSE result' = result /\ pc' = "conversion"
  /\ UNCHANGED <<config, conc, sendret, iob_free, iob_fwd, g_netstats, dev,
                 d_len, ipv6, ret, hdrsize, paysize, iob, entry>>

(***************************************************************************)
(* ipv6_packet_conversion(), lines 99-145.  The hook is given the ingress  *)
(* length, the link type of the forwarding device, the protocol and the    *)
(* counters; it yields its return value, the new dev->d_len, the new       *)
(* counters and the 6LoWPAN send routines it called.  sret is what the     *)
(* send routine returns when it is called: lines 116 and 125 call it as a  *)
(* statement, so the value is not used.                                    *)
(***************************************************************************)
sixlowpan_send == {OK, -ENOMEM}

(* The test of lines 106/108 without dev->d_len > 0.                       *)
ConversionApplies_NoLenCheck(len, lltype) ==
  cfg.MULTILINK => lltype = NET_LL_IEEE802154

ConversionApplies(len, lltype) ==
  len > 0 /\ (cfg.MULTILINK => lltype = NET_LL_IEEE802154)

(* The hook with dev->d_len left alone when the packet is dropped.         *)
ipv6_packet_conversion_KeepLen(len, lltype, proto, stats, sret) ==
  IF ConversionApplies(len, lltype)
    THEN IF cfg.TCP /\ proto = IP_PROTO_TCP
           THEN [ret |-> OK, d_len |-> 0, stats |-> stats,
                 sent |-> <<"sixlowpan_tcp_send">>]
           ELSE IF cfg.UDP /\ proto = IP_PROTO_UDP
                  THEN [ret |-> OK, d_len |-> 0, stats |-> stats,
                        sent |-> <<"sixlowpan_udp_send">>]
                  ELSE [ret |-> OK, d_len |-> len,
                        stats |-> IF cfg.STATISTICS
                                    THEN [stats EXCEPT !.ipv6 = @ + 1]
                                    ELSE stats,
                        sent |-> <<>>]
    ELSE [ret |-> -EPFNOSUPPORT, d_len |-> len, stats |-> stats, sent |-> <<>>]

(* The hook without the else of line 118: a TCP packet, once sent, falls   *)
(* into the UDP test and from there into the drop.                         *)
ipv6_packet_conversion_NoElse(len, lltype, proto, stats, sret) ==
  IF ConversionApplies(len, lltype)
    THEN IF cfg.UDP /\ proto = IP_PROTO_UDP
           THEN [ret |-> OK, d_len |-> 0, stats |-> stats,
                 sent |-> <<"sixlowpan_udp_send">>]
           ELSE [ret |-> OK, d_len |-> 0,
                 stats |-> IF cfg.STATISTICS
                             THEN [stats EXCEPT !.ipv6 = @ + 1]
                             ELSE stats,
                 sent |-> IF cfg.TCP /\ proto = IP_PROTO_TCP
                            THEN <<"sixlowpan_tcp_send">>
                            ELSE <<>>]
    ELSE [ret |-> -EPFNOSUPPORT, d_len |-> len, stats |-> stats, sent |-> <<>>]

(* The hook returning what the send routine returned, and leaving a packet *)
(* that could not be sent in the buffer.                                   *)
ipv6_packet_conversion_PropagateSend(len, lltype, proto, stats, sret) ==
  IF ConversionApplies(len, lltype)
    THEN IF cfg.TCP /\ proto = IP_PROTO_TCP
           THEN [ret |-> sret, d_len |-> IF sret < 0 THEN len ELSE 0,
                 stats |-> stats, sent |-> <<"sixlowpan_tcp_send">>]
           ELSE IF cfg.UDP /\ proto = IP_PROTO_UDP
                  THEN [ret |-> sret, d_len |-> IF sret < 0 THEN len ELSE 0,
                        stats |-> stats, sent |-> <<"sixlowpan_udp_send">>]
                  ELSE [ret |-> OK, d_len |-> 0,
                        stats |-> IF cfg.STATISTICS
                                    THEN [stats EXCEPT !.ipv6 = @ + 1]
                                    ELSE stats,
                        sent |-> <<>>]
    ELSE [ret |-> -EPFNOSUPPORT, d_len |-> len, stats |-> stats, sent |-> <<>>]

ipv6_packet_conversion(len, lltype, proto, stats, sret) ==
  IF ConversionApplies(len, lltype)
    THEN IF cfg.TCP /\ proto = IP_PROTO_TCP
           THEN [ret |-> OK, d_len |-> 0, stats |-> stats,
                 sent |-> <<"sixlowpan_tcp_send">>]
           ELSE IF cfg.UDP /\ proto = IP_PROTO_UDP
                  THEN [ret |-> OK, d_len |-> 0, stats |-> stats,
                        sent |-> <<"sixlowpan_udp_send">>]
                  ELSE [ret |-> OK, d_len |-> 0,
                        stats |-> IF cfg.STATISTICS
                                    THEN [stats EXCEPT !.ipv6 = @ + 1]
                                    ELSE stats,
                        sent |-> <<>>]
    ELSE [ret |-> -EPFNOSUPPORT, d_len |-> len, stats |-> stats, sent |-> <<>>]

(* PacketConversion without the test of line 360: the other device is     *)
(* staged for whatever the hook returned.                                  *)
PacketConversion_AlwaysStage(sret) ==
  /\ pc = "conversion"
  /\ LET same == SameDevBranch(fwddev)
         to == IF same THEN dev ELSE fwddev
         c == ipv6_packet_conversion(d_len, d_lltype[to], ipv6.proto,
                                     g_netstats, sret)
     IN
       /\ c.sent = <<>> => sret = OK
       /\ sendret' = sret
       /\ ret' = c.ret
       /\ d_len' = c.d_len
       /\ g_netstats' = c.stats
       /\ calls' = calls \o <<"ipv6_packet_conversion">> \o c.sent
       /\ IF same
            THEN IF c.ret < 0
                   THEN result' = -ENOSYS /\ pc' = "done"
                   ELSE result' = OK /\ pc' = "done"
            ELSE result' = result /\ pc' = "hdrsize"
  /\ UNCHANGED <<config, conc, iob_free, iob_fwd, dev, ipv6, fwddev, hdrsize,
                 paysize, iob, entry>>

(* Lines 359-361 (fwddev != dev) and 448-468 (same device), then 483.      *)
PacketConversion(sret) ==
  /\ pc = "conversion"
  /\ LET same == SameDevBranch(fwddev)
         to == IF same THEN dev ELSE fwddev
         c == ipv6_packet_conversion(d_len, d_lltype[to], ipv6.proto,
                                     g_netstats, sret)
     IN
       /\ c.sent = <<>> => sret = OK
       /\ sendret' = sret
       /\ ret' = c.ret
       /\ d_len' = c.d_len
       /\ g_netstats' = c.stats
       /\ calls' = calls \o <<"ipv6_packet_conversion">> \o c.sent
       /\ IF c.ret < 0
            THEN IF same
                   THEN result' = -ENOSYS /\ pc' = "done"
                   ELSE result' = result /\ pc' = "hdrsize"
            ELSE result' = OK /\ pc' = "done"
  /\ UNCHANGED <<config, conc, iob_free, iob_fwd, dev, ipv6, fwddev, hdrsize,
                 paysize, iob, entry>>

(***************************************************************************)
(* ipv6_hdrsize(), lines 167-206.  The TCP header is looked for at ipv6,   *)
(* cast to a pointer to uintptr_t, plus IPv6_HDRLEN: pointer arithmetic in *)
(* units of sizeof(uintptr_t), so the byte read is at TcpOffsetRead.       *)
(***************************************************************************)
ipv6_hdrsize(h) ==
  CASE cfg.TCP /\ h.proto = IP_PROTO_TCP ->
         IPv6_HDRLEN + ((h.buf[TcpOffsetRead] \div 16) * 4)
    [] cfg.UDP /\ h.proto = IP_PROTO_UDP -> IPv6_HDRLEN + UDP_HDRLEN
    [] cfg.ICMPv6 /\ h.proto = IP_PROTO_ICMP6 -> IPv6_HDRLEN + ICMPv6_HDRLEN
    [] OTHER -> -EPROTONOSUPPORT

(* Line 381: unsigned int paysize = dev->d_len - hdrsize.                  *)
PaySize(len, hsize) == (len - hsize) % (2 ^ UINT_BITS)

(* HdrSize with the unsupported protocol returned at once, not dropped.    *)
HdrSize_NoDrop ==
  /\ pc = "hdrsize"
  /\ LET hs == ipv6_hdrsize(ipv6) IN
       /\ hdrsize' = hs
       /\ calls' = Append(calls, "ipv6_hdrsize")
       /\ IF hs < 0
            THEN paysize' = paysize /\ pc' = "done" /\ result' = hs
            ELSE /\ paysize' = PaySize(d_len, hs)
                 /\ pc' = IF PaySize(d_len, hs) > 0 THEN "tryalloc" ELSE "forward"
                 /\ result' = result
  /\ UNCHANGED <<config, conc, sendret, iob_free, iob_fwd, g_netstats, dev,
                 d_len, ipv6, fwddev, ret, iob, entry>>

(* HdrSize without the test of line 383: an IOB is asked for even when     *)
(* there is no payload.                                                    *)
HdrSize_AllocAlways ==
  /\ pc = "hdrsize"
  /\ LET hs == ipv6_hdrsize(ipv6) IN
       /\ hdrsize' = hs
       /\ calls' = Append(calls, "ipv6_hdrsize")
       /\ IF hs < 0
            THEN paysize' = paysize /\ pc' = "drop"
            ELSE paysize' = PaySize(d_len, hs) /\ pc' = "tryalloc"
  /\ UNCHANGED <<config, conc, sendret, iob_free, iob_fwd, g_netstats, dev,
                 d_len, ipv6, fwddev, ret, iob, result, entry>>

(* Lines 374-383.                                                          *)
HdrSize ==
  /\ pc = "hdrsize"
  /\ LET hs == ipv6_hdrsize(ipv6) IN
       /\ hdrsize' = hs
       /\ calls' = Append(calls, "ipv6_hdrsize")
       /\ IF hs < 0
            THEN paysize' = paysize /\ pc' = "drop"
            ELSE /\ paysize' = PaySize(d_len, hs)
                 /\ pc' = IF PaySize(d_len, hs) > 0 THEN "tryalloc" ELSE "forward"
  /\ UNCHANGED <<config, conc, sendret, iob_free, iob_fwd, g_netstats, dev,
                 d_len, ipv6, fwddev, ret, iob, result, entry>>

(***************************************************************************)
(* The IOB pool (mm/iob), as ipv6_forward uses it.  iob_tryalloc() takes   *)
(* one free IOB or returns NULL; iob_trycopyin() extends the chain by one  *)
(* IOB per IOB_BUFSIZE bytes, and when the pool runs dry it fails with the *)
(* IOBs it got still in the chain; iob_free_chain() returns every IOB of   *)
(* the chain to the pool and accepts NULL.  A chain is modelled by the     *)
(* number of its IOBs.                                                     *)
(***************************************************************************)
IobsNeeded(n) == (n + IOB_BUFSIZE - 1) \div IOB_BUFSIZE

iob_tryalloc(free) ==
  IF free = 0
    THEN [iob |-> NULL, free |-> free]
    ELSE [iob |-> 1, free |-> free - 1]

iob_trycopyin(chain, len, free) ==
  LET more == IobsNeeded(len) - chain IN
    IF more <= free
      THEN [ret |-> OK, iob |-> chain + more, free |-> free - more]
      ELSE [ret |-> -ENOMEM, iob |-> chain + free, free |-> 0]

iob_free_chain(chain, free) == free + chain

(* Lines 390-395.                                                          *)
TryAlloc ==
  /\ pc = "tryalloc"
  /\ calls' = Append(calls, "iob_tryalloc")
  /\ LET a == iob_tryalloc(iob_free) IN
       /\ iob' = a.iob
       /\ iob_free' = a.free
       /\ IF a.iob = NULL
            THEN ret' = -ENOMEM /\ pc' = "errout_with_iob"
            ELSE ret' = ret /\ pc' = "trycopyin"
  /\ UNCHANGED <<config, conc, sendret, iob_fwd, g_netstats, dev, d_len, ipv6,
                 fwddev, hdrsize, paysize, result, entry>>

(* TryCopyin with the failure sent to the drop label, past iob_free_chain. *)
TryCopyin_GotoDrop ==
  /\ pc = "trycopyin"
  /\ calls' = Append(calls, "iob_trycopyin")
  /\ LET c == iob_trycopyin(iob, paysize, iob_free) IN
       /\ iob' = c.iob
       /\ iob_free' = c.free
       /\ ret' = c.ret
       /\ pc' = IF c.ret < 0 THEN "drop" ELSE "forward"
  /\ UNCHANGED <<config, conc, sendret, iob_fwd, g_netstats, dev, d_len, ipv6,
                 fwddev, hdrsize, paysize, result, entry>>

(* Lines 402-406.                                                          *)
TryCopyin ==
  /\ pc = "trycopyin"
  /\ calls' = Append(calls, "iob_trycopyin")
  /\ LET c == iob_trycopyin(iob, paysize, iob_free) IN
       /\ iob' = c.iob
       /\ iob_free' = c.free
       /\ ret' = c.ret
       /\ pc' = IF c.ret < 0 THEN "errout_with_iob" ELSE "forward"
  /\ UNCHANGED <<config, conc, sendret, iob_fwd, g_netstats, dev, d_len, ipv6,
                 fwddev, hdrsize, paysize, result, entry>>

(***************************************************************************)
(* The forwarding paths.  ipv6_dev_forward(), lines 239-262, always fails. *)
(* tcp_ipv6_forward() (net/tcp) either takes the chain and returns OK or   *)
(* fails and leaves the chain with the caller.                             *)
(***************************************************************************)
ipv6_dev_forward == -ENOSYS

tcp_ipv6_forward == {OK, -ENOSYS}

(* Forward without the test of line 411: every packet goes to             *)
(* ipv6_dev_forward.                                                       *)
Forward_AlwaysGeneric(r) ==
  /\ pc = "forward"
  /\ r = ipv6_dev_forward
  /\ calls' = Append(calls, "ipv6_dev_forward")
  /\ ret' = r
  /\ iob_fwd' = iob_fwd
  /\ d_len' = d_len
  /\ result' = result
  /\ pc' = "errout_with_iob"
  /\ UNCHANGED <<config, conc, sendret, iob_free, g_netstats, dev, ipv6,
                 fwddev, hdrsize, paysize, iob, entry>>

(* Lines 411-424.                                                          *)
Forward(r) ==
  /\ pc = "forward"
  /\ IF ipv6.proto = IP_PROTO_TCP
       THEN r \in tcp_ipv6_forward /\ calls' = Append(calls, "tcp_ipv6_forward")
       ELSE r = ipv6_dev_forward /\ calls' = Append(calls, "ipv6_dev_forward")
  /\ ret' = r
  /\ IF r >= 0
       THEN /\ iob_fwd' = iob_fwd + iob
            /\ d_len' = 0
            /\ result' = OK
            /\ pc' = "done"
       ELSE /\ iob_fwd' = iob_fwd
            /\ d_len' = d_len
            /\ result' = result
            /\ pc' = "errout_with_iob"
  /\ UNCHANGED <<config, conc, sendret, iob_free, g_netstats, dev, ipv6,
                 fwddev, hdrsize, paysize, iob, entry>>

(* The errout_with_iob label without its iob_free_chain().                 *)
ErroutWithIob_NoFree ==
  /\ pc = "errout_with_iob"
  /\ pc' = "drop"
  /\ UNCHANGED <<config, conc, sendret, iob_free, iob_fwd, g_netstats, dev,
                 d_len, ipv6, fwddev, ret, hdrsize, paysize, iob, result,
                 calls, entry>>

(* Lines 426-427: iob_free_chain(iob).                                     *)
ErroutWithIob ==
  /\ pc = "errout_with_iob"
  /\ calls' = Append(calls, "iob_free_chain")
  /\ iob_free' = iob_free_chain(iob, iob_free)
  /\ pc' = "drop"
  /\ UNCHANGED <<config, conc, sendret, iob_fwd, g_netstats, dev, d_len, ipv6,
                 fwddev, ret, hdrsize, paysize, iob, result, entry>>

(* ipv6_dropstats() without the network-layer counter.                     *)
ipv6_dropstats_NoIpv6(stats) ==
  IF cfg.STATISTICS
    THEN [icmpv6 |-> stats.icmpv6 + 1, udp |-> stats.udp + 1,
          tcp |-> stats.tcp + 1, ipv6 |-> stats.ipv6]
    ELSE stats

(* ipv6_dropstats() counting only the transport of the dropped packet.    *)
ipv6_dropstats_PerProto(stats) ==
  IF cfg.STATISTICS
    THEN [icmpv6 |-> stats.icmpv6 + IF ipv6.proto = IP_PROTO_ICMP6 THEN 1 ELSE 0,
          udp |-> stats.udp + IF ipv6.proto = IP_PROTO_UDP THEN 1 ELSE 0,
          tcp |-> stats.tcp + IF ipv6.proto = IP_PROTO_TCP THEN 1 ELSE 0,
          ipv6 |-> stats.ipv6 + 1]
    ELSE stats

(* ipv6_dropstats(), lines 280-291.                                        *)
ipv6_dropstats(stats) ==
  IF cfg.STATISTICS
    THEN [icmpv6 |-> stats.icmpv6 + 1, udp |-> stats.udp + 1,
          tcp |-> stats.tcp + 1, ipv6 |-> stats.ipv6 + 1]
    ELSE stats

(* The drop label without dev->d_len = 0.                                  *)
Drop_KeepLen ==
  /\ pc = "drop"
  /\ calls' = Append(calls, "ipv6_dropstats")
  /\ g_netstats' = ipv6_dropstats(g_netstats)
  /\ result' = -ENOSYS
  /\ pc' = "done"
  /\ UNCHANGED <<config, conc, sendret, iob_free, iob_fwd, dev, d_len, ipv6,
                 fwddev, ret, hdrsize, paysize, iob, entry>>

(* Lines 429-432.                                                          *)
Drop ==
  /\ pc = "drop"
  /\ calls' = Append(calls, "ipv6_dropstats")
  /\ g_netstats' = ipv6_dropstats(g_netstats)
  /\ d_len' = 0
  /\ result' = -ENOSYS
  /\ pc' = "done"
  /\ UNCHANGED <<config, conc, sendret, iob_free, iob_fwd, dev, ipv6, fwddev,
                 ret, hdrsize, paysize, iob, entry>>

(***************************************************************************)
(* ipv6_forward has returned ret to ipv6_input, which returns to the       *)
(* driver; the driver sends or discards what is left in the buffer, and    *)
(* the device is ready for the next frame.                                 *)
(***************************************************************************)
Return ==
  /\ pc = "done"
  /\ pc' = "idle"
  /\ result' = OK
  /\ sendret' = OK
  /\ dev' = 1
  /\ d_len' = 0
  /\ ipv6' = NoHeader
  /\ fwddev' = NULL
  /\ ret' = OK
  /\ hdrsize' = 0
  /\ paysize' = 0
  /\ iob' = 0
  /\ calls' = <<>>
  /\ entry' = [d_len |-> 0, stats |-> g_netstats, outstanding |-> Outstanding]
  /\ UNCHANGED <<config, conc, iob_free, iob_fwd, g_netstats>>

Next ==
  \/ \E d \in netdevs, n \in DLens, h \in Headers : Input(d, n, h)
  \/ FindDev
  \/ \E sret \in sixlowpan_send : PacketConversion(sret)
  \/ HdrSize
  \/ TryAlloc
  \/ TryCopyin
  \/ \E r \in tcp_ipv6_forward \cup {ipv6_dev_forward} : Forward(r)
  \/ ErroutWithIob
  \/ Drop
  \/ Return

Spec == Init /\ [][Next]_vars

(***************************************************************************)
(* Overlapping calls.  ipv6_forward.c takes no lock and g_netstats is a    *)
(* global; "g_netstats.x.drop++" is a load, an add and a store.  Two calls *)
(* of ipv6_forward, one per ingress device, each reach a place that counts *)
(* a drop: ipv6_dropstats (lines 283-287: icmpv6, udp, tcp, ipv6 in that   *)
(* order) or the drop leg of ipv6_packet_conversion (line 136: ipv6).      *)
(* Their loads and stores interleave in every order.                       *)
(***************************************************************************)
DropLegs ==
  [ipv6_dropstats |-> <<"icmpv6", "udp", "tcp", "ipv6">>,
   ipv6_packet_conversion |-> <<"ipv6">>]

Counter(p) == DropLegs[cpc[p].leg][cpc[p].n + 1]

ConcDone(p) ==
  cpc[p].leg # "none" /\ cpc[p].n = Len(DropLegs[cpc[p].leg])

InitConc ==
  /\ Init
  /\ cfg.STATISTICS
  /\ cfg.MULTINIC

(* The call on device p arrives at ipv6_dropstats or at the hook's drop.   *)
DropEnter(p, leg) ==
  /\ cpc[p].leg = "none"
  /\ cpc' = [cpc EXCEPT ![p] = [leg |-> leg, n |-> 0, loaded |-> FALSE]]
  /\ UNCHANGED <<config, reg, iob_free, iob_fwd, g_netstats, dev, d_len,
                 ipv6, fwddev, ret, hdrsize, paysize, iob, pc, result,
                 sendret, calls, entry>>

(* The load of "drop++".                                                   *)
CounterLoad(p) ==
  /\ cpc[p].leg # "none"
  /\ ~ConcDone(p)
  /\ ~cpc[p].loaded
  /\ reg' = [reg EXCEPT ![p] = g_netstats[Counter(p)]]
  /\ cpc' = [cpc EXCEPT ![p].loaded = TRUE]
  /\ UNCHANGED <<config, iob_free, iob_fwd, g_netstats, dev, d_len, ipv6,
                 fwddev, ret, hdrsize, paysize, iob, pc, result, sendret,
                 calls, entry>>

(* The store of "drop++": the loaded value plus one.                       *)
CounterStore(p) ==
  /\ cpc[p].loaded
  /\ g_netstats' = [g_netstats EXCEPT ![Counter(p)] = reg[p] + 1]
  /\ cpc' = [cpc EXCEPT ![p].loaded = FALSE, ![p].n = @ + 1]
  /\ UNCHANGED <<config, reg, iob_free, iob_fwd, dev, d_len, ipv6, fwddev,
                 ret, hdrsize, paysize, iob, pc, result, sendret, calls,
                 entry>>

NextConc ==
  \/ \E p \in netdevs, leg \in DOMAIN DropLegs : DropEnter(p, leg)
  \/ \E p \in netdevs : CounterLoad(p)
  \/ \E p \in netdevs : CounterStore(p)

SpecConc == InitConc /\ [][NextConc]_vars

(***************************************************************************)
(* Vocabulary of the properties.                                           *)
(***************************************************************************)
Returned == pc = "done"
Failed == Returned /\ result < 0
NoRoute == fwddev = NULL
CrossDev == fwddev # NULL /\ ~SameDevBranch(fwddev)
SameDev == fwddev # NULL /\ SameDevBranch(fwddev)

Idx(x) == {i \in DOMAIN calls : calls[i] = x}
Called(x) == Idx(x) # {}
Count(x) == Cardinality(Idx(x))
Precedes(x, y) == \A i \in Idx(x), j \in Idx(y) : i < j

PathCalls == {"tcp_ipv6_forward", "ipv6_dev_forward"}
PathCalled == \E x \in PathCalls : Called(x)
PathFailed == PathCalled /\ ret < 0
PathAccepted == PathCalled /\ ret >= 0
LastCall == calls[Len(calls)]

C3_ChainReleasedOnce ==
  /\ Count("iob_free_chain") <= 1
  /\ iob_free \in 0..MaxIobs
  /\ (Returned /\ PathFailed) =>
       /\ Count("iob_free_chain") = 1
       /\ \A x \in PathCalls : Precedes(x, "iob_free_chain")
       /\ Precedes("iob_free_chain", "ipv6_dropstats")
       /\ Called("ipv6_dropstats")
       /\ Outstanding = entry.outstanding
  /\ (Returned /\ PathAccepted) =>
       /\ Count("iob_free_chain") = 0
       /\ LastCall \in PathCalls
       /\ Outstanding = entry.outstanding + iob

C3_Witness ==
  Returned /\ PathFailed /\ iob = 2 /\ Count("iob_free_chain") = 1

C3_WitnessAccepted ==
  Returned /\ PathAccepted /\ iob > 0

(***************************************************************************)
(* C4: a call that returns a failure leaves as many IOBs allocated as      *)
(* there were at entry.                                                    *)
(***************************************************************************)
C4_NoLeakOnFailure == Failed => Outstanding = entry.outstanding

C4_Witness ==
  /\ Failed
  /\ LastCall = "ipv6_dropstats"
  /\ Called("iob_trycopyin")
  /\ ~PathCalled
  /\ iob > 0
  /\ paysize \in 1..300

C4_WitnessAllocFails ==
  Failed /\ Called("iob_tryalloc") /\ ~Called("iob_trycopyin") /\ iob = NULL

C4_WitnessPathFails == Failed /\ PathFailed /\ iob > 0

(***************************************************************************)
(* C5 (scenario B): with several devices, a TCP packet for another device  *)
(* than the ingress device, which the conversion hook did not take and     *)
(* tcp_ipv6_forward refused, makes ipv6_forward return -ENOSYS with        *)
(* dev->d_len zero, the staged chain back in the pool and, where the       *)
(* counters are built in, the IPv6 drop counter one higher than at entry.  *)
(***************************************************************************)
ScenarioB ==
  /\ Returned
  /\ cfg.MULTINIC
  /\ CrossDev
  /\ ipv6.proto = IP_PROTO_TCP
  /\ Called("tcp_ipv6_forward")
  /\ ret < 0

C5_ScenarioB ==
  ScenarioB =>
    /\ result = -ENOSYS
    /\ d_len = 0
    /\ Outstanding = entry.outstanding
    /\ Count("iob_free_chain") = 1
    /\ cfg.STATISTICS => g_netstats.ipv6 = entry.stats.ipv6 + 1
    /\ Count("ipv6_dropstats") = 1

C5_Witness ==
  ScenarioB /\ cfg.STATISTICS /\ iob > 0 /\ entry.d_len > 0

(***************************************************************************)
(* C6 (scenario C): when the forwarding device needs the 6LoWPAN           *)
(* conversion, dev->d_len is not zero and the protocol is neither TCP nor  *)
(* UDP, ipv6_forward returns OK with dev->d_len zero, the IPv6 drop        *)
(* counter one higher than at entry, the TCP, UDP and ICMPv6 drop counters *)
(* as at entry, and no IOB was asked for; on the same device and on        *)
(* another one.                                                            *)
(***************************************************************************)
NeedsConversion(d) ==
  cfg.SIXLOWPAN /\ (cfg.MULTILINK => d_lltype[d] = NET_LL_IEEE802154)

ScenarioC ==
  /\ Returned
  /\ fwddev # NULL
  /\ NeedsConversion(fwddev)
  /\ entry.d_len > 0
  /\ ipv6.proto \notin {IP_PROTO_TCP, IP_PROTO_UDP}

C6_ScenarioC ==
  ScenarioC =>
    /\ result = OK
    /\ d_len = 0
    /\ cfg.STATISTICS =>
         g_netstats = [entry.stats EXCEPT !.ipv6 = @ + 1]
    /\ ~cfg.STATISTICS => g_netstats = entry.stats
    /\ ~Called("iob_tryalloc")
    /\ ~Called("iob_trycopyin")
    /\ Outstanding = entry.outstanding

C6_Witness == ScenarioC /\ CrossDev /\ cfg.STATISTICS

C6_WitnessSameDev == ScenarioC /\ SameDev /\ cfg.STATISTICS

(***************************************************************************)
(* C7 (scenario A), as stated: with a single device that serves the        *)
(* destination and needs no conversion, a UDP packet makes ipv6_forward    *)
(* return OK with dev->d_len and the drop counters as at entry.  (The      *)
(* code returns -ENOSYS from line 467 or 474: the return OK of line 483,   *)
(* whose comment describes this case, is reached only after the 6LoWPAN    *)
(* hook has taken the packet.)                                             *)
(***************************************************************************)
ScenarioA ==
  /\ Returned
  /\ ~cfg.MULTINIC
  /\ fwddev = dev
  /\ ipv6.proto = IP_PROTO_UDP
  /\ ~NeedsConversion(fwddev)

C7_ScenarioAReturnsOK ==
  ScenarioA =>
    /\ result = OK
    /\ d_len = entry.d_len
    /\ g_netstats = entry.stats

(***************************************************************************)
(* C8, as stated: ipv6_hdrsize returns IPv6_HDRLEN plus four times the     *)
(* upper four bits of the TCP header's tcpoffset byte, the TCP header      *)
(* starting IPv6_HDRLEN bytes after the IPv6 header; IPv6_HDRLEN plus      *)
(* UDP_HDRLEN for UDP; IPv6_HDRLEN plus ICMPv6_HDRLEN for ICMPv6; and      *)
(* -EPROTONOSUPPORT for any other protocol.                                *)
(***************************************************************************)
HdrSizeReference(h) ==
  CASE h.proto = IP_PROTO_TCP -> IPv6_HDRLEN + 4 * (h.buf[TcpOffsetAt] \div 16)
    [] h.proto = IP_PROTO_UDP -> IPv6_HDRLEN + UDP_HDRLEN
    [] h.proto = IP_PROTO_ICMP6 -> IPv6_HDRLEN + ICMPv6_HDRLEN
    [] OTHER -> -EPROTONOSUPPORT

C8_HdrSizeIsReference ==
  Called("ipv6_hdrsize") => hdrsize = HdrSizeReference(ipv6)

(***************************************************************************)
(* C9, as stated: on the cross-device branch the value returned names the  *)
(* step that failed: -EPROTONOSUPPORT when ipv6_hdrsize rejected the       *)
(* protocol, -ENOMEM when iob_tryalloc or iob_trycopyin failed, and        *)
(* -ENOSYS only when a forwarding path failed.                             *)
(***************************************************************************)
C9_FailureKindNamesStep ==
  (Failed /\ CrossDev) =>
    /\ (Called("ipv6_hdrsize") /\ hdrsize < 0) => result = -EPROTONOSUPPORT
    /\ (Called("iob_tryalloc") /\ ~PathCalled) => result = -ENOMEM
    /\ result = -ENOSYS => PathFailed

Terminal == {"iob_free_chain", "ipv6_dropstats"}

NothingAfterFailure ==
  \A i, j \in DOMAIN calls :
    (i < j /\ calls[i] \in Terminal) => calls[j] \in Terminal

C10_WitnessNotCounted ==
  Failed /\ ~CrossDev /\ cfg.STATISTICS /\ entry.d_len > 0

(***************************************************************************)
(* C11: ipv6_hdrsize, iob_tryalloc, iob_trycopyin and the forwarding paths *)
(* are called only in a call whose first two steps were the device lookup  *)
(* and the conversion hook, the lookup having returned a device other than *)
(* the ingress device and the hook not having taken the packet; on the     *)
(* same device, or once the hook took the packet, none of them is called.  *)
(***************************************************************************)
StagingCalls ==
  {"ipv6_hdrsize", "iob_tryalloc", "iob_trycopyin"} \cup PathCalls

SendCalls == {"sixlowpan_tcp_send", "sixlowpan_udp_send"}

HookTakes == entry.d_len > 0 /\ NeedsConversion(fwddev)

C11_StagingOnlyAcrossDevices ==
  \A i \in DOMAIN calls :
    calls[i] \in StagingCalls =>
      /\ i > 2
      /\ calls[1] = "netdev_findby_ipv6addr"
      /\ calls[2] = "ipv6_packet_conversion"
      /\ cfg.MULTINIC
      /\ fwddev # NULL
      /\ fwddev # dev
      /\ ~HookTakes
      /\ \A x \in SendCalls : ~Called(x)

C11_Witness == Returned /\ CrossDev /\ PathCalled /\ Called("iob_trycopyin")

C11_WitnessHookTook ==
  Returned /\ CrossDev /\ HookTakes /\ Len(calls) <= 3

(***************************************************************************)
(* C12: a call makes at most one forwarding path call; tcp_ipv6_forward    *)
(* only for TCP and ipv6_dev_forward only for UDP and ICMPv6; a call whose *)
(* protocol ipv6_hdrsize rejected makes none; and a call on the other-     *)
(* device branch whose staging succeeded (the chain holds the whole        *)
(* payload) has made one when it returns.                                  *)
(***************************************************************************)
StagingDone ==
  Called("ipv6_hdrsize") /\ hdrsize >= 0 /\ iob = IobsNeeded(paysize)

C12_OnePathByProtocol ==
  /\ Count("tcp_ipv6_forward") + Count("ipv6_dev_forward") <= 1
  /\ Called("tcp_ipv6_forward") => ipv6.proto = IP_PROTO_TCP
  /\ Called("ipv6_dev_forward") => ipv6.proto \in {IP_PROTO_UDP, IP_PROTO_ICMP6}
  /\ (Called("ipv6_hdrsize") /\ hdrsize < 0) => ~PathCalled
  /\ (Returned /\ StagingDone) => PathCalled

C12_Witness ==
  Returned /\ Called("ipv6_dev_forward") /\ ipv6.proto = IP_PROTO_ICMP6 /\ iob > 0

C12_WitnessTcp == Returned /\ Called("tcp_ipv6_forward") /\ iob > 0

(***************************************************************************)
(* C13: when the hook runs with dev->d_len above zero for a device that    *)
(* needs the 6LoWPAN conversion, a TCP packet is given to                  *)
(* sixlowpan_tcp_send once and a UDP packet to sixlowpan_udp_send once,    *)
(* never to both; dev->d_len is then zero, the hook (and ipv6_forward)     *)
(* returns OK and the drop counters are as at entry.                       *)
(***************************************************************************)
HookCase ==
  /\ Returned
  /\ fwddev # NULL
  /\ HookTakes
  /\ Called("ipv6_packet_conversion")

C13_HookDispatch ==
  (HookCase /\ ipv6.proto \in {IP_PROTO_TCP, IP_PROTO_UDP}) =>
    /\ calls = <<"netdev_findby_ipv6addr", "ipv6_packet_conversion",
                 IF ipv6.proto = IP_PROTO_TCP
                   THEN "sixlowpan_tcp_send"
                   ELSE "sixlowpan_udp_send">>
    /\ d_len = 0
    /\ ret = OK
    /\ result = OK
    /\ g_netstats = entry.stats

C13_Witness == HookCase /\ ipv6.proto = IP_PROTO_TCP /\ cfg.STATISTICS

C13_WitnessUdp == HookCase /\ ipv6.proto = IP_PROTO_UDP /\ CrossDev

(***************************************************************************)
(* C14: when the forwarding device needs no conversion, or dev->d_len is   *)
(* zero, the hook calls no send routine, and right after it (two calls     *)
(* made) its return value is -EPFNOSUPPORT, which is neither OK nor a      *)
(* drop: dev->d_len and the drop counters are as at entry.                 *)
(***************************************************************************)
C14_HookNotApplicable ==
  (Called("ipv6_packet_conversion") /\ ~HookTakes) =>
    /\ \A x \in SendCalls : ~Called(x)
    /\ Len(calls) = 2 =>
         /\ ret = -EPFNOSUPPORT
         /\ ret # OK
         /\ d_len = entry.d_len
         /\ g_netstats = entry.stats

C14_Witness ==
  /\ Len(calls) = 2
  /\ Called("ipv6_packet_conversion")
  /\ cfg.MULTILINK
  /\ d_lltype[fwddev] = NET_LL_ETHERNET
  /\ entry.d_len > 0
  /\ cfg.STATISTICS

C14_WitnessZeroLength ==
  /\ Len(calls) = 2
  /\ Called("ipv6_packet_conversion")
  /\ NeedsConversion(fwddev)
  /\ entry.d_len = 0

(***************************************************************************)
(* C15: on the other-device branch, when dev->d_len equals the header size *)
(* ipv6_hdrsize returned, paysize is zero, no IOB is asked for and nothing *)
(* is copied in; the call goes on to the forwarding path with a NULL       *)
(* chain, and the iob_free_chain that follows the path's failure leaves    *)
(* the number of allocated IOBs as at entry.                               *)
(***************************************************************************)
C15_EmptyPayload ==
  (Called("ipv6_hdrsize") /\ hdrsize >= 0 /\ entry.d_len = hdrsize) =>
    /\ paysize = 0
    /\ ~Called("iob_tryalloc")
    /\ ~Called("iob_trycopyin")
    /\ iob = NULL
    /\ Outstanding = entry.outstanding
    /\ pc \in {"forward", "errout_with_iob", "drop", "done"}
    /\ pc # "forward" => PathCalled
    /\ (Returned /\ PathFailed) => Count("iob_free_chain") = 1

C15_Witness ==
  /\ Returned
  /\ Called("ipv6_hdrsize")
  /\ entry.d_len = hdrsize
  /\ PathFailed
  /\ Called("iob_free_chain")

(***************************************************************************)
(* C16: in a build with the counters, the drop label raises each of the    *)
(* IPv6, TCP, UDP and ICMPv6 drop counters by exactly one, whatever the    *)
(* protocol of the packet, and sets dev->d_len to zero; and no step of any *)
(* call lowers a drop counter.                                             *)
(***************************************************************************)
StatNames == {"ipv6", "tcp", "udp", "icmpv6"}

C16_DropAccounting ==
  [][/\ pc = "drop" =>
          /\ d_len' = 0
          /\ cfg.STATISTICS =>
               \A k \in StatNames : g_netstats'[k] = g_netstats[k] + 1
     /\ \A k \in StatNames : g_netstats'[k] >= g_netstats[k]]_vars

C16_Witness ==
  /\ Returned
  /\ cfg.STATISTICS
  /\ Called("ipv6_dropstats")
  /\ ipv6.proto = IP_PROTO_UDP
  /\ g_netstats.tcp = entry.stats.tcp + 1
  /\ g_netstats.icmpv6 = entry.stats.icmpv6 + 1
  /\ entry.stats.ipv6 > 0

(***************************************************************************)
(* C18, as stated: the payload length used for staging never exceeds       *)
(* dev->d_len; when dev->d_len is below the header size ipv6_hdrsize       *)
(* returned, paysize does not wrap and neither iob_tryalloc nor            *)
(* iob_trycopyin is called.                                                *)
(***************************************************************************)
C18_PaysizeWithinFrame ==
  (Called("ipv6_hdrsize") /\ hdrsize >= 0) =>
    /\ paysize <= entry.d_len
    /\ entry.d_len < hdrsize =>
         /\ ~Called("iob_tryalloc")
         /\ ~Called("iob_trycopyin")

(***************************************************************************)
(* C19: when the 6LoWPAN send routine the hook called failed, the hook     *)
(* still returns OK with dev->d_len zero and the drop counters as at       *)
(* entry, and ipv6_forward returns OK.                                     *)
(***************************************************************************)
SendFailed == (\E x \in SendCalls : Called(x)) /\ sendret < 0

C19_SendResultIgnored ==
  (Returned /\ SendFailed) =>
    /\ ret = OK
    /\ result = OK
    /\ d_len = 0
    /\ g_netstats = entry.stats

C19_Witness ==
  Returned /\ SendFailed /\ entry.d_len > 0 /\ cfg.STATISTICS /\ CrossDev

(***************************************************************************)
(* C17, as stated: when two calls of ipv6_forward on different ingress     *)
(* devices overlap and each counts a drop, every interleaving ends with    *)
(* each drop counter raised by the number of increments made on it.        *)
(***************************************************************************)
IncsBy(p, k) ==
  Cardinality({j \in 1..cpc[p].n : DropLegs[cpc[p].leg][j] = k})

C17_NoLostIncrement ==
  (\A p \in netdevs : ConcDone(p)) =>
    \A k \in StatNames :
      g_netstats[k] = IncsBy(1, k) + IncsBy(2, k)

=============================================================================
